---- MODULE Spec2Model ----
(***************************************************************************)
(* A model of smartlog/builder.py: TreeBuilder, TreeNode and TreeNodeDict. *)
(* The repository (commit DAG, commit messages, branch heads, merge-base)  *)
(* is the environment: it is drawn in Init and never changes.  Every call  *)
(* of TreeBuilder.add is one step.                                         *)
(***************************************************************************)
EXTENDS Integers, Sequences, FiniteSets, TLC

VARIABLES
    repo,                 \* TreeBuilder.repo (None when the caller passed none)
    parents,              \* repo: commit -> ordered list of its parent commits
    message,              \* repo: commit -> commit message
    heads,                \* repo: branch name -> commit of the branch head
    merge_base_mode,      \* repo: which best common ancestors merge_base lists
    master_commit,        \* TreeBuilder.master_commit
    date_limit,           \* TreeBuilder.date_limit (None when not configured)
    skip_count,           \* TreeBuilder.skip_count
    node_lookup,          \* TreeNodeDict.lookup: commit -> TreeNode (NoNode: no key)
    node_parent,          \* TreeNode.parent, for every TreeNode created
    children,             \* TreeNode.children, for every TreeNode created
    is_on_master_branch,  \* TreeNode.is_on_master_branch (a Python value)
    last,                 \* what the last call did (observation only)
    frame                 \* the locals of the call of add that is running

repoVars == <<repo, parents, message, heads, merge_base_mode, master_commit, date_limit>>
treeVars == <<node_lookup, node_parent, children, is_on_master_branch>>
vars == <<repo, parents, message, heads, merge_base_mode, master_commit, date_limit,
          skip_count, node_lookup, node_parent, children, is_on_master_branch, last,
          frame>>

----------------------------------------------------------------------------
(* Bounds *)

NumCommits == 4
MaxSkips == 1
Cutoff == 3

Commits == 1..NumCommits

(* Python's None where a commit (or the repo, or the date limit) is expected,
   and the Repo object. *)
None == 0
Repo == -1

(* Python's True, False and None as values of is_on_master_branch. *)
PyTrue == "True"
PyFalse == "False"
PyNone == "None"
truthy(v) == v = PyTrue

(* A TreeNode is an object: <<x, k>> is the k-th TreeNode constructed with
   commit = x.  NoNode is Python's None where a TreeNode is expected. *)
NoNode == <<None, 0>>
root_node == <<Repo, 0>>
master_node == <<master_commit, 0>>

----------------------------------------------------------------------------
(* The repository *)

MsgTopic == "Merge branch 'topic' into master"
MsgGone == "Merge branch 'gone' into master"
MsgOther == "Merged topic"
Messages == {MsgTopic, MsgGone, MsgOther}
BranchNames == {"topic"}

(* commit.committed_date: commits are numbered in commit order. *)
committed_date(c) == c

(* The parent lists a commit may have: parents are older commits; zero, one,
   two (ordered) or three parents. *)
ParentLists(c) ==
    LET older == 1..(c - 1)
    IN {<<>>}
       \cup {<<p>> : p \in older}
       \cup {t \in older \X older : t[1] # t[2]}
       \cup {t \in older \X older \X older : t[1] > t[2] /\ t[2] > t[3]}

RECURSIVE Histories(_)
Histories(n) ==
    IF n = 0 THEN {<<>>}
    ELSE {Append(h, pl) : h \in Histories(n - 1), pl \in ParentLists(n)}

RECURSIVE AncestorsIn(_, _)
AncestorsIn(h, c) ==
    {c} \cup UNION {AncestorsIn(h, h[c][i]) : i \in 1..Len(h[c])}

(* c and every commit reachable from it through parents. *)
Ancestors(c) == AncestorsIn(parents, c)

is_ancestor(a, b) == a \in Ancestors(b)

(* The commits of ca that are not an ancestor of another commit of ca. *)
Maximal(h, ca) == {x \in ca : \A y \in ca \ {x} : x \notin AncestorsIn(h, y)}

(* The best common ancestors of a and b: common ancestors that are not an
   ancestor of another common ancestor. *)
BestCommonIn(h, a, b) == Maximal(h, AncestorsIn(h, a) \cap AncestorsIn(h, b))

SetMax(S) == CHOOSE x \in S : \A y \in S : y <= x
SetMin(S) == CHOOSE x \in S : \A y \in S : x <= y

RECURSIVE SetToSeq(_)
SetToSeq(S) == IF S = {} THEN <<>> ELSE <<SetMax(S)>> \o SetToSeq(S \ {SetMax(S)})

(* The list merge_base makes of the best common ancestors: git lists one
   of them (which one is not specified: the newest or the oldest here), or
   all of them. *)
listed(best) ==
    IF best = {} THEN <<>>
    ELSE IF merge_base_mode = "all" THEN SetToSeq(best)
    ELSE IF merge_base_mode = "newest" THEN <<SetMax(best)>>
    ELSE <<SetMin(best)>>

(* repo.merge_base(a, b): a list of commits. *)
merge_base(a, b) == listed(BestCommonIn(parents, a, b))

(* re.match of the pattern  Merge branch <name> into ...  (the name in single
   quotes) on the message: group 1 of the match, or no match. *)
re_match(msg) ==
    IF msg = MsgTopic THEN [matched |-> TRUE, name |-> "topic"]
    ELSE IF msg = MsgGone THEN [matched |-> TRUE, name |-> "gone"]
    ELSE [matched |-> FALSE, name |-> ""]

(* Some pair of commits has more than one best common ancestor. *)
HasCrissCross(h) ==
    \E a, b \in 1..Len(h) : Cardinality(BestCommonIn(h, a, b)) > 1

----------------------------------------------------------------------------
(* Results of the calls that may return None or raise *)

Ok(v) == [k |-> "ok", v |-> v]
Raise(e) == [k |-> e, v |-> None]

----------------------------------------------------------------------------
(* TreeNode and TreeNodeDict, on a builder record
   b = [node_lookup, node_parent, children, is_on_master_branch]. *)

Nodes(b) == DOMAIN b.node_parent

commit_of(node) == node[1]

NewNodeId(b, commit) ==
    <<commit, Cardinality({n \in Nodes(b) : commit_of(n) = commit})>>

(* TreeNode.__init__ *)
TreeNode(b, id, flag) ==
    [b EXCEPT !.node_parent = @ @@ (id :> NoNode),
              !.children = @ @@ (id :> <<>>),
              !.is_on_master_branch = @ @@ (id :> flag)]

(* TreeNode.add_child *)
add_child(b, self, node) ==
    [b EXCEPT !.node_parent[node] = self,
              !.children[self] = Append(@, node)]

(* list.remove: the first occurrence goes. *)
RECURSIVE list_remove(_, _)
list_remove(s, x) ==
    IF s = <<>> THEN <<>>
    ELSE IF Head(s) = x THEN Tail(s)
    ELSE <<Head(s)>> \o list_remove(Tail(s), x)

(* A faulty variant: the parent reference is cleared and the child list is left alone. *)
remove_child_keeps_entry(b, self, node) ==
    IF b.node_parent[node] # self THEN b
    ELSE [b EXCEPT !.node_parent[node] = NoNode]

(* TreeNode.remove_child *)
remove_child(b, self, node) ==
    IF b.node_parent[node] # self THEN b
    ELSE [b EXCEPT !.node_parent[node] = NoNode,
                   !.children[self] = list_remove(@, node)]

(* TreeNode.has_parent *)
has_parent(b, node) == b.node_parent[node] # NoNode

(* A faulty variant: the node is not registered. *)
lookup_insert_drops(b, node) == b

(* TreeNodeDict.insert: the key is commit.hexsha *)
lookup_insert(b, node) ==
    IF node = NoNode \/ commit_of(node) = None THEN b
    ELSE [b EXCEPT !.node_lookup[commit_of(node)] = node]

(* A faulty variant: every lookup ends in KeyError. *)
lookup_get_misses(b, commit) == NoNode

(* TreeNodeDict.get *)
lookup_get(b, commit) ==
    IF commit = None THEN NoNode ELSE b.node_lookup[commit]

----------------------------------------------------------------------------
(* TreeBuilder._get_lca_commit and _get_merge_destination_parent *)

(* Lines 110-120 of _get_lca_commit, on the list merge_base gave.  Line 119
   calls _get_merge_destination_parent with two arguments; the method takes
   one, so the call raises TypeError. *)
lca_of(commits) ==
    IF Len(commits) > 1 THEN Ok(None)
    ELSE IF Len(commits) = 0 THEN Ok(None)
    ELSE IF Len(parents[commits[1]]) > 1 THEN Raise("TypeError_arguments")
    ELSE Ok(commits[1])

(* _get_lca_commit(c1, c2) *)
get_lca_commit(c1, c2) == lca_of(merge_base(c1, c2))

(* next(pc for pc in merge_c.parents if self._get_lca_commit(head, pc) != pc)
   from the i-th parent on; next_parent_test is the test of parent pc, with
   r what _get_lca_commit gave for it. *)
RECURSIVE next_parent(_, _, _)
RECURSIVE next_parent_test(_, _, _, _, _)
next_parent_test(merge_c, incoming_c_head, i, pc, r) ==
    IF r.k # "ok" THEN r
    ELSE IF r.v # pc THEN Ok(pc)
    ELSE next_parent(merge_c, incoming_c_head, i + 1)

next_parent(merge_c, incoming_c_head, i) ==
    IF i > Len(parents[merge_c]) THEN Raise("StopIteration")
    ELSE next_parent_test(merge_c, incoming_c_head, i, parents[merge_c][i],
                          get_lca_commit(incoming_c_head, parents[merge_c][i]))

(* Lines 127-130, with the match of line 126: match[1] on no match raises
   TypeError, repo.heads[name] on an unknown name raises IndexError. *)
destination_by(merge_c, match) ==
    IF ~match.matched THEN Raise("TypeError_subscript")
    ELSE IF match.name \notin DOMAIN heads THEN Raise("IndexError")
    ELSE next_parent(merge_c, heads[match.name], 1)

(* _get_merge_destination_parent(merge_c) *)
get_merge_destination_parent(merge_c) ==
    IF Len(parents[merge_c]) # 2 THEN Ok(None)
    ELSE destination_by(merge_c, re_match(message[merge_c]))

(* Line 134 of _get_lca_node, with r what _get_lca_commit gave. *)
lca_node_of(b, r) ==
    IF r.k # "ok" THEN [k |-> r.k, v |-> NoNode]
    ELSE [k |-> "ok", v |-> IF r.v # None THEN lookup_get(b, r.v) ELSE NoNode]

(* _get_lca_node(node1, node2) *)
get_lca_node(b, node1, node2) ==
    lca_node_of(b, get_lca_commit(commit_of(node1), commit_of(node2)))

----------------------------------------------------------------------------
(* TreeBuilder._insert_lca *)

(* insert(parent, node, child), the helper inside _insert_lca *)
insert(b, parent, node, child) ==
    add_child(add_child(remove_child(b, parent, child), parent, node), node, child)

(* The while loop of _insert_lca, at `node`; insert_lca_test is lines 159-163,
   with base_node what _get_lca_node gave.  Result: the builder, whether a
   splice was made, and "ok" or the exception raised. *)
RECURSIVE insert_lca_loop(_, _, _)
RECURSIVE insert_lca_test(_, _, _, _)
insert_lca_test(b, lca_node, node, base_node) ==
    IF base_node.k # "ok"
    THEN [b |-> b, spliced |-> FALSE, k |-> base_node.k]
    ELSE IF base_node.v = b.node_parent[node]
    THEN [b |-> insert(b, b.node_parent[node], lca_node, node), spliced |-> TRUE, k |-> "ok"]
    ELSE insert_lca_loop(b, lca_node, b.node_parent[node])

insert_lca_loop(b, lca_node, node) ==
    IF node = NoNode THEN [b |-> b, spliced |-> FALSE, k |-> "ok"]
    ELSE IF b.node_parent[node] = root_node
    THEN [b |-> insert(b, root_node, lca_node, node), spliced |-> TRUE, k |-> "ok"]
    ELSE IF b.node_parent[node] = NoNode
    THEN [b |-> b, spliced |-> FALSE, k |-> "AttributeError"]
    ELSE insert_lca_test(b, lca_node, node, get_lca_node(b, lca_node, b.node_parent[node]))

insert_lca(b, lca_node) ==
    IF lca_node = master_node THEN [b |-> b, spliced |-> FALSE, k |-> "ok"]
    ELSE insert_lca_loop(b, lca_node, master_node)

----------------------------------------------------------------------------
(* TreeBuilder.add *)

(* The parent the walk goes to from c (lines 71-79): the only parent, the
   merge destination parent, or, for a commit with no parent, what the
   variable `parent` still holds from the iteration before (unbound in the
   first iteration). *)
walk_parent(c, parent) ==
    IF Len(parents[c]) = 1 THEN Ok(parents[c][1])
    ELSE IF Len(parents[c]) = 2 THEN get_merge_destination_parent(c)
    ELSE IF parent = None THEN [k |-> "unbound", v |-> None]
    ELSE Ok(parent)

(* Lines 82-85: the node of commit c, made and registered when found is
   None. *)
node_for(b, c, found) ==
    IF found = NoNode
    THEN [b |-> lookup_insert(TreeNode(b, NewNodeId(b, c), PyFalse), NewNodeId(b, c)),
          node |-> NewNodeId(b, c)]
    ELSE [b |-> b, node |-> found]

(* Lines 87-88 *)
link_last(b, node, last_node) ==
    IF last_node # NoNode THEN add_child(b, node, last_node) ELSE b

(* The while loop of add, at commit c.  walk_step is lines 82-88 with sel
   the parent chosen in lines 71-79, walk_next lines 90-95.  Result: the
   builder, last_node, the commits the loop looked at, and "ok",
   "unsupported" (the return of line 76) or the exception raised. *)
RECURSIVE walk_loop(_, _, _, _, _, _)
RECURSIVE walk_step(_, _, _, _, _, _)
RECURSIVE walk_linked(_, _, _, _, _, _)
RECURSIVE walk_next(_, _, _, _, _, _)
walk_next(b, node, c, sel, lca_commit, walk) ==
    IF has_parent(b, node)
    THEN [b |-> b, last_node |-> NoNode, walk |-> Append(walk, c), k |-> "ok"]
    ELSE IF sel.k = "unbound"
    THEN [b |-> b, last_node |-> node, walk |-> Append(walk, c), k |-> "UnboundLocalError"]
    ELSE walk_loop(b, sel.v, node, sel.v, lca_commit, Append(walk, c))

walk_linked(bn, c, last_node, sel, lca_commit, walk) ==
    walk_next(link_last(bn.b, bn.node, last_node), bn.node, c, sel, lca_commit, walk)

walk_step(b, c, last_node, sel, lca_commit, walk) ==
    IF sel.k \notin {"ok", "unbound"}
    THEN [b |-> b, last_node |-> last_node, walk |-> Append(walk, c), k |-> sel.k]
    ELSE walk_linked(node_for(b, c, lookup_get(b, c)), c, last_node, sel, lca_commit, walk)

walk_loop(b, c, last_node, parent, lca_commit, walk) ==
    IF c = lca_commit
    THEN [b |-> b, last_node |-> last_node, walk |-> walk, k |-> "ok"]
    ELSE IF Len(parents[c]) > 2
    THEN [b |-> b, last_node |-> last_node, walk |-> Append(walk, c), k |-> "unsupported"]
    ELSE walk_step(b, c, last_node, walk_parent(c, parent), lca_commit, walk)

Builder == [node_lookup |-> node_lookup, node_parent |-> node_parent,
            children |-> children, is_on_master_branch |-> is_on_master_branch]

(* A faulty variant: the new LCA node is made without is_on_master_branch. *)
new_lca_node_unflagged(b, lca_commit) ==
    [b |-> lookup_insert(TreeNode(b, NewNodeId(b, lca_commit), PyFalse), NewNodeId(b, lca_commit)),
     node |-> NewNodeId(b, lca_commit)]

(* Lines 100-101: the node of the LCA commit, made and registered. *)
new_lca_node(b, lca_commit) ==
    [b |-> lookup_insert(TreeNode(b, NewNodeId(b, lca_commit), PyTrue), NewNodeId(b, lca_commit)),
     node |-> NewNodeId(b, lca_commit)]

(* Lines 105-106 after _insert_lca (line 102) gave ins for the new lca_node. *)
attach_spliced(ins, lca_node, last_node) ==
    IF ins.k # "ok"
    THEN [b |-> ins.b, k |-> ins.k, new_lca |-> TRUE, spliced |-> FALSE]
    ELSE [b |-> link_last(ins.b, lca_node, last_node), k |-> "added",
          new_lca |-> TRUE, spliced |-> ins.spliced]

(* Lines 100-106 for the new LCA node bn. *)
attach_new(bn, last_node) ==
    attach_spliced(insert_lca(bn.b, bn.node), bn.node, last_node)

(* Lines 99-106, with found what node_lookup gave for the LCA commit. *)
attach_found(b, last_node, lca_commit, found) ==
    IF found = NoNode THEN attach_new(new_lca_node(b, lca_commit), last_node)
    ELSE [b |-> link_last(b, found, last_node), k |-> "added",
          new_lca |-> FALSE, spliced |-> FALSE]

(* Lines 97-106: map the LCA commit to a node, splice it in if it is new,
   and attach the chain. *)
attach_lca(b, last_node, lca_commit) ==
    attach_found(b, last_node, lca_commit, lookup_get(b, lca_commit))

(* A faulty variant: lines 97-106 run, and the outcome is reported, also after the
   loop returned or raised. *)
finish_walk_after_abort(w, lca_commit) ==
    [attach_lca(w.b, w.last_node, lca_commit) EXCEPT !.k = w.k]

(* What follows the loop: nothing when the loop returned or raised, lines
   97-106 otherwise. *)
finish_walk(w, lca_commit) ==
    IF w.k # "ok"
    THEN [b |-> w.b, k |-> w.k, new_lca |-> FALSE, spliced |-> FALSE]
    ELSE attach_lca(w.b, w.last_node, lca_commit)

(* The record of a call. *)
NoCall(op) == [op |-> op, commit |-> None, outcome |-> "", lca_commit |-> None,
               walk |-> <<>>, new_lca |-> FALSE, spliced |-> FALSE]

(* A call of add that returned in lines 43-64 (or raised in line 61). *)
returned_early(b, skip, commit, outcome) ==
    [b |-> b, skip_count |-> skip,
     call |-> [NoCall("add") EXCEPT !.commit = commit, !.outcome = outcome]]

(* A call of add that came to the loop: a is what finish_walk gave. *)
returned(skip, commit, lca_commit, walk, a) ==
    [b |-> a.b, skip_count |-> skip,
     call |-> [op |-> "add", commit |-> commit, outcome |-> a.k, lca_commit |-> lca_commit,
               walk |-> walk, new_lca |-> a.new_lca, spliced |-> a.spliced]]

(* Lines 66-106, with w what the loop gave. *)
add_walked(skip, commit, lca_commit, w) ==
    returned(skip, commit, lca_commit, w.walk, finish_walk(w, lca_commit))

(* Lines 62-106, with lca what _get_lca_commit gave in line 61. *)
add_from_lca(b, skip, commit, lca) ==
    IF lca.k # "ok" THEN returned_early(b, skip, commit, lca.k)
    ELSE IF lca.v = None THEN returned_early(b, skip, commit, "unreachable")
    ELSE add_walked(skip, commit, lca.v, walk_loop(b, commit, NoNode, None, lca.v, <<>>))

(* A faulty variant: the date test of line 53 comes before the index test
   of line 48. *)
add_date_first(b, skip, commit, ignore_date_limit) ==
    IF commit = None THEN returned_early(b, skip, commit, "invalid")
    ELSE IF date_limit # None /\ ~ignore_date_limit /\ committed_date(commit) < date_limit
    THEN returned_early(b, skip + 1, commit, "skipped")
    ELSE IF lookup_get(b, commit) # NoNode THEN returned_early(b, skip, commit, "already")
    ELSE add_from_lca(b, skip, commit, get_lca_commit(commit, master_commit))

(* add(commit, ignore_date_limit) on builder b with skip counter skip: the
   builder and the counter it leaves, and the record of the call. *)
add(b, skip, commit, ignore_date_limit) ==
    IF commit = None THEN returned_early(b, skip, commit, "invalid")
    ELSE IF lookup_get(b, commit) # NoNode THEN returned_early(b, skip, commit, "already")
    ELSE IF date_limit # None /\ ~ignore_date_limit /\ committed_date(commit) < date_limit
    THEN returned_early(b, skip + 1, commit, "skipped")
    ELSE add_from_lca(b, skip, commit, get_lca_commit(commit, master_commit))

----------------------------------------------------------------------------
(* The state machine *)

(* The builder no constructor call has filled in. *)
NoBuilder == [node_lookup |-> [c \in Commits |-> NoNode], node_parent |-> <<>>,
              children |-> <<>>, is_on_master_branch |-> <<>>]

(* TreeBuilder.__init__(repo, master_commit, date_limit): the builder it
   leaves, or ValueError. *)
init(r, mc) ==
    IF r = None THEN [b |-> NoBuilder, k |-> "ValueError"]
    ELSE IF mc = None THEN [b |-> NoBuilder, k |-> "ValueError"]
    ELSE [b |-> lookup_insert(
                    add_child(TreeNode(TreeNode(NoBuilder, <<r, 0>>, PyNone), <<mc, 0>>, PyTrue),
                              <<r, 0>>, <<mc, 0>>),
                    <<mc, 0>>),
          k |-> "ok"]

(* The repositories: every history of NumCommits commits.  A merge commit
   has one of the three messages; what nothing reads is fixed (the message of
   a commit that is no merge, the head of a branch no message names, the
   merge_base mode of a history where every pair of commits has at most one
   best common ancestor). *)
RepoInit ==
    /\ parents \in Histories(NumCommits)
    /\ message \in [Commits -> Messages]
    /\ \A c \in Commits : Len(parents[c]) # 2 => message[c] = MsgOther
    /\ heads \in [BranchNames -> Commits]
    /\ (\A c \in Commits : message[c] # MsgTopic) => heads["topic"] = 1
    /\ merge_base_mode \in {"all", "newest", "oldest"}
    /\ ~HasCrissCross(parents) => merge_base_mode = "newest"

(* The state the constructor call r leaves. *)
Constructed(r) ==
    /\ node_lookup = r.b.node_lookup
    /\ node_parent = r.b.node_parent
    /\ children = r.b.children
    /\ is_on_master_branch = r.b.is_on_master_branch
    /\ last = [NoCall("init") EXCEPT !.outcome = r.k]

(* No call of add is running. *)
Idle == [pc |-> "idle", c |-> None, last_node |-> NoNode, parent |-> None,
         lca_commit |-> None, lca_node |-> NoNode, node |-> NoNode]

(* TreeBuilder(repo, master_commit, date_limit) *)
Init ==
    /\ RepoInit
    /\ frame = Idle
    /\ repo \in {Repo, None}
    /\ master_commit \in Commits \cup {None}
    /\ date_limit \in {None, Cutoff}
    /\ (repo = None \/ master_commit = None) =>
            /\ parents = [c \in Commits |-> <<>>]
            /\ date_limit = None
            /\ master_commit \in {None, 1}
    /\ skip_count = 0
    /\ Constructed(init(repo, master_commit))

constructed == last.op = "add" \/ last.outcome = "ok"

(* The state the call r of add leaves. *)
Returned(r) ==
    /\ r.skip_count <= MaxSkips
    /\ skip_count' = r.skip_count
    /\ node_lookup' = r.b.node_lookup
    /\ node_parent' = r.b.node_parent
    /\ children' = r.b.children
    /\ is_on_master_branch' = r.b.is_on_master_branch
    /\ last' = r.call
    /\ UNCHANGED <<repoVars, frame>>

Add(commit, ignore_date_limit) ==
    /\ constructed
    /\ Returned(add(Builder, skip_count, commit, ignore_date_limit))

Next == \E commit \in Commits \cup {None}, ignore_date_limit \in BOOLEAN :
            Add(commit, ignore_date_limit)

Spec == Init /\ [][Next]_vars

----------------------------------------------------------------------------
(* TreeBuilder.add, one loop iteration at a time *)

(* The call returns, or an exception leaves it: builder b, counter skip. *)
Return(b, skip, outcome) ==
    /\ skip <= MaxSkips
    /\ skip_count' = skip
    /\ node_lookup' = b.node_lookup
    /\ node_parent' = b.node_parent
    /\ children' = b.children
    /\ is_on_master_branch' = b.is_on_master_branch
    /\ last' = NoCall("add")
    /\ frame' = Idle
    /\ UNCHANGED repoVars

(* The call goes on, with builder b and locals f. *)
Continue(b, f) ==
    /\ node_lookup' = b.node_lookup
    /\ node_parent' = b.node_parent
    /\ children' = b.children
    /\ is_on_master_branch' = b.is_on_master_branch
    /\ frame' = f
    /\ UNCHANGED <<repoVars, skip_count, last>>

(* Lines 62-67, with lca what _get_lca_commit gave in line 61. *)
Enter(commit, lca) ==
    IF lca.k # "ok" THEN Return(Builder, skip_count, lca.k)
    ELSE IF lca.v = None THEN Return(Builder, skip_count, "unreachable")
    ELSE Continue(Builder, [Idle EXCEPT !.pc = "walk", !.c = commit, !.lca_commit = lca.v])

(* add(commit, ignore_date_limit) up to the while loop (lines 43-67). *)
Call(commit, ignore_date_limit) ==
    /\ frame.pc = "idle"
    /\ constructed
    /\ IF commit = None THEN Return(Builder, skip_count, "invalid")
       ELSE IF lookup_get(Builder, commit) # NoNode THEN Return(Builder, skip_count, "already")
       ELSE IF date_limit # None /\ ~ignore_date_limit /\ committed_date(commit) < date_limit
       THEN Return(Builder, skip_count + 1, "skipped")
       ELSE Enter(commit, get_lca_commit(commit, master_commit))

(* Lines 90-95 *)
WalkNext(b, node, sel) ==
    IF has_parent(b, node)
    THEN Continue(b, [frame EXCEPT !.pc = "attach", !.last_node = NoNode])
    ELSE IF sel.k = "unbound" THEN Return(b, skip_count, "UnboundLocalError")
    ELSE Continue(b, [frame EXCEPT !.last_node = node, !.c = sel.v, !.parent = sel.v])

(* Lines 87-95, with bn the node of lines 82-85 *)
WalkLinked(bn, sel) ==
    WalkNext(link_last(bn.b, bn.node, frame.last_node), bn.node, sel)

(* Lines 78-95, with sel the parent chosen in lines 71-79 *)
WalkBody(sel) ==
    IF sel.k \notin {"ok", "unbound"} THEN Return(Builder, skip_count, sel.k)
    ELSE WalkLinked(node_for(Builder, frame.c, lookup_get(Builder, frame.c)), sel)

(* One test of the condition of the while loop of add (line 69) and, when it
   holds, one run of the body (lines 70-95). *)
WalkStep ==
    /\ frame.pc = "walk"
    /\ IF frame.c = frame.lca_commit THEN Continue(Builder, [frame EXCEPT !.pc = "attach"])
       ELSE IF Len(parents[frame.c]) > 2 THEN Return(Builder, skip_count, "unsupported")
       ELSE WalkBody(walk_parent(frame.c, frame.parent))

(* Lines 100-102 and 149-151, with bn the new LCA node: _insert_lca returns
   at once for master_node, or starts its loop at master_node. *)
AttachNew(bn) ==
    IF bn.node = master_node
    THEN Return(link_last(bn.b, bn.node, frame.last_node), skip_count, "added")
    ELSE Continue(bn.b, [frame EXCEPT !.pc = "insert", !.lca_node = bn.node,
                                      !.node = master_node])

(* Lines 98-106, with found what node_lookup gave for the LCA commit. *)
AttachFound(found) ==
    IF found # NoNode
    THEN Return(link_last(Builder, found, frame.last_node), skip_count, "added")
    ELSE AttachNew(new_lca_node(Builder, frame.lca_commit))

(* Lines 97-106, up to the while loop of _insert_lca. *)
Attach ==
    /\ frame.pc = "attach"
    /\ AttachFound(lookup_get(Builder, frame.lca_commit))

(* A faulty variant: the loop of _insert_lca stays at its node. *)
climb_stays(b, node) == node

(* Line 163: node = node.parent *)
climb(b, node) == b.node_parent[node]

(* Lines 145-147 and 161, then lines 105-106: the splice, and the chain
   attached. *)
Spliced(parent) ==
    Return(link_last(insert(Builder, parent, frame.lca_node, frame.node),
                     frame.lca_node, frame.last_node),
           skip_count, "added")

(* Lines 159-163, with base_node what _get_lca_node gave. *)
InsertTest(base_node) ==
    IF base_node.k # "ok" THEN Return(Builder, skip_count, base_node.k)
    ELSE IF base_node.v = node_parent[frame.node] THEN Spliced(node_parent[frame.node])
    ELSE Continue(Builder, [frame EXCEPT !.node = climb(Builder, frame.node)])

(* One test of the condition of the while loop of _insert_lca (line 154)
   and, when it holds, one run of the body (lines 155-163). *)
InsertStep ==
    /\ frame.pc = "insert"
    /\ IF frame.node = NoNode
       THEN Return(link_last(Builder, frame.lca_node, frame.last_node), skip_count, "added")
       ELSE IF node_parent[frame.node] = root_node THEN Spliced(root_node)
       ELSE IF node_parent[frame.node] = NoNode
       THEN Return(Builder, skip_count, "AttributeError")
       ELSE InsertTest(get_lca_node(Builder, frame.lca_node, node_parent[frame.node]))

NextLoops ==
    \/ \E commit \in Commits \cup {None}, ignore_date_limit \in BOOLEAN :
           Call(commit, ignore_date_limit)
    \/ WalkStep
    \/ Attach
    \/ InsertStep

(* The constructions without date limit: the date test of line 53 comes
   before both loops and only decides whether they run. *)
InitLoops == Init /\ date_limit = None

(* add is synchronous: a call that has begun runs on. *)
SpecLoops ==
    /\ InitLoops
    /\ [][NextLoops]_vars
    /\ WF_vars(WalkStep \/ Attach \/ InsertStep)

----------------------------------------------------------------------------
(* Reading the tree *)

Range(s) == {s[i] : i \in DOMAIN s}

Count(s, x) == Cardinality({i \in DOMAIN s : s[i] = x})

RECURSIVE reach_down(_, _)
reach_down(b, S) ==
    LET T == S \cup UNION {Range(b.children[n]) : n \in S}
    IN IF T = S THEN S ELSE reach_down(b, T)

(* The Nodes reachable from root through child lists. *)
InTree(b) == reach_down(b, {root_node})

(* The Nodes met going up parent links from n, n first; at most fuel of them. *)
RECURSIVE path_up(_, _, _)
path_up(b, n, fuel) ==
    IF n = NoNode \/ fuel = 0 THEN <<>>
    ELSE <<n>> \o path_up(b, b.node_parent[n], fuel - 1)

(* The backbone: from the tip Node up. *)
Backbone(b) == path_up(b, master_node, Cardinality(Nodes(b)))

(* The Nodes strictly above n. *)
StrictAncestors(b, n) == Range(path_up(b, b.node_parent[n], Cardinality(Nodes(b))))

----------------------------------------------------------------------------
(* C1: single ownership.  Every Node other than root that is reachable from
   root is in exactly one child list, once, and that list is its parent's;
   and whatever is in a child list has the list's owner as its parent. *)
ThmC1 ==
    constructed =>
        /\ \A n \in InTree(Builder) \ {root_node} :
              /\ {m \in Nodes(Builder) : n \in Range(children[m])} = {node_parent[n]}
              /\ Count(children[node_parent[n]], n) = 1
        /\ \A m \in Nodes(Builder) : \A n \in Range(children[m]) : node_parent[n] = m

(* A splice has moved a backbone Node under a new LCA Node, and a chain of
   two Nodes hangs from it. *)
WitC1 ==
    /\ last.outcome = "added" /\ last.spliced /\ Len(last.walk) = 2
    /\ Cardinality(InTree(Builder)) = 5

(* C2: backbone reachability.  Going up from the tip Node reaches root, and
   every Node on the way, root aside, is flagged is_on_master_branch. *)
ThmC2 ==
    constructed =>
        /\ root_node \in Range(Backbone(Builder))
        /\ \A n \in Range(Backbone(Builder)) \ {root_node} : truthy(is_on_master_branch[n])

(* Two LCA Nodes have been spliced in above the tip. *)
WitC2 ==
    /\ last.outcome = "added" /\ last.spliced
    /\ Len(Backbone(Builder)) = 4

(* The position of Node n in sequence s (0 when it is not there). *)
IndexOf(s, n) == IF n \in Range(s) THEN CHOOSE i \in DOMAIN s : s[i] = n ELSE 0

(* The tree under root: its Nodes with their links and flags. *)
TreeUnder(b) ==
    [n \in InTree(b) |-> [parent |-> b.node_parent[n], children |-> b.children[n],
                          flag |-> b.is_on_master_branch[n]]]

(* C3 (as claimed): after add has spliced a new LCA Node L into the
   backbone, L's commit is an ancestor of the commit of every backbone Node
   below L, down to the tip, and of no backbone Node above L. *)
CexC3 ==
    (last.op = "add" /\ last.spliced) =>
        LET bb == Backbone(Builder)
            i == IndexOf(bb, node_lookup[last.lca_commit])
        IN /\ i > 0
           /\ \A j \in 1..(i - 1) : is_ancestor(last.lca_commit, commit_of(bb[j]))
           /\ \A j \in (i + 1)..Len(bb) :
                  bb[j] # root_node => ~is_ancestor(last.lca_commit, commit_of(bb[j]))

(* The outcomes C4 calls a rejection: no (or no single) merge base, a walked
   commit with more than two parents, a merge message that does not match,
   a merge message naming an unknown branch. *)
Rejections == {"unreachable", "unsupported", "TypeError_subscript", "IndexError"}

(* C4 (as claimed): a rejected add creates no Node and changes no link. *)
CexC4 ==
    [][(last'.op = "add" /\ last'.outcome \in Rejections) =>
           /\ node_parent' = node_parent
           /\ children' = children]_vars

(* C4 (amended): a rejected add leaves the tree under root as it was, Node
   for Node and link for link, and a rejection for want of a merge base
   leaves every Node and the index as they were; what a rejection in
   mid-walk creates is outside the tree under root. *)
ThmC4 ==
    [][(last'.op = "add" /\ last'.outcome \in Rejections) =>
           /\ TreeUnder(Builder)' = TreeUnder(Builder)
           /\ last'.outcome = "unreachable" => UNCHANGED treeVars
           /\ \A n \in Nodes(Builder)' \ Nodes(Builder) : n \notin InTree(Builder)']_vars

(* A walk was rejected at its second commit, after a Node was made for the
   first. *)
WitC4 ==
    /\ last.op = "add" /\ last.outcome \in Rejections
    /\ Len(last.walk) = 2
    /\ node_lookup[last.walk[1]] # NoNode
    /\ node_lookup[last.walk[1]] \notin InTree(Builder)

(* A second add(c, ig), after the call r1 of it, leaves the builder as r1
   left it. *)
SecondAddSame(r1, c, ig) == add(r1.b, r1.skip_count, c, ig).b = r1.b

(* C5: idempotence.  From every reachable state, for every commit, a second
   add of the commit (same arguments) leaves Nodes, links, index and flags
   as the first add left them. *)
ThmC5 ==
    constructed =>
        \A c \in Commits \cup {None}, ig \in BOOLEAN :
            SecondAddSame(add(Builder, skip_count, c, ig), c, ig)

(* An add was aborted at the second commit of its walk, a merge commit
   whose message does not match, and the commit it was called with is now
   indexed: the second add returns at once. *)
WitC5 ==
    /\ last.op = "add" /\ last.outcome = "TypeError_subscript" /\ Len(last.walk) = 2
    /\ add(Builder, skip_count, last.commit, FALSE).call.outcome = "already"

(* C6 (as claimed): parent links are acyclic, and no Node is in its own
   child list. *)
CexC6 ==
    constructed =>
        \A n \in Nodes(Builder) :
            /\ n \notin StrictAncestors(Builder, n)
            /\ n \notin Range(children[n])

(* C7 (as claimed): after an add that returned normally having placed its
   commit, the Node indexed for the commit is reachable from root. *)
CexC7 ==
    (last.op = "add" /\ last.outcome = "added") =>
        /\ node_lookup[last.commit] # NoNode
        /\ node_lookup[last.commit] \in InTree(Builder)

(* The walked commits whose parent count is neither 1 nor 2. *)
BadCount(walk) == {i \in DOMAIN walk : Len(parents[walk[i]]) \notin {1, 2}}

(* C8 (as claimed): a walk that comes to a commit with zero or more than two
   parents stops there, add returns without having attached anything, and the
   tree under root is as it was. *)
CexC8 ==
    [][(last'.op = "add" /\ BadCount(last'.walk) # {}) =>
           /\ BadCount(last'.walk) = {Len(last'.walk)}
           /\ last'.outcome # "added"
           /\ TreeUnder(Builder)' = TreeUnder(Builder)
           /\ \A i \in DOMAIN last'.walk :
                  node_lookup'[last'.walk[i]] \notin InTree(Builder)' \ InTree(Builder)]_vars

(* A merge commit whose message names the branch that its second parent
   heads. *)
NamesSecondParent(m) ==
    /\ Len(parents[m]) = 2
    /\ re_match(message[m]).matched
    /\ re_match(message[m]).name \in DOMAIN heads
    /\ heads[re_match(message[m]).name] = parents[m][2]

(* C9 (as claimed): for such a merge commit the destination parent is the
   first parent, and a walk that goes on from the merge commit goes to the
   first parent. *)
CexC9 ==
    last.op = "add" =>
        \A i \in DOMAIN last.walk :
            NamesSecondParent(last.walk[i]) =>
                /\ get_merge_destination_parent(last.walk[i]) = Ok(parents[last.walk[i]][1])
                /\ i < Len(last.walk) => last.walk[i + 1] = parents[last.walk[i]][1]

(* merge_base(a, b) is one commit, a merge commit with two parents and a
   message that names a branch of the repository. *)
BaseIsMerge(a, b) ==
    /\ Len(merge_base(a, b)) = 1
    /\ Len(parents[merge_base(a, b)[1]]) = 2
    /\ re_match(message[merge_base(a, b)[1]]).matched
    /\ re_match(message[merge_base(a, b)[1]]).name \in DOMAIN heads

(* C10 (as claimed): when the merge base is such a merge commit,
   _get_lca_commit returns a commit, one of the merge commit's ancestors
   through the parent the heuristic picks, and an add that got as far as
   asking for it went on to the walk. *)
CexC10 ==
    (/\ last.op = "add" /\ last.commit # None
     /\ last.outcome \notin {"already", "skipped"}
     /\ BaseIsMerge(last.commit, master_commit)) =>
        /\ get_lca_commit(last.commit, master_commit).k = "ok"
        /\ get_lca_commit(last.commit, master_commit).v \in
               Ancestors(merge_base(last.commit, master_commit)[1])
                   \ {merge_base(last.commit, master_commit)[1]}
        /\ last.lca_commit = get_lca_commit(last.commit, master_commit).v

(* The call r of add(c) skipped c: the counter went up by one, the builder
   is as it was, and nothing was asked of the repository. *)
Skipped(r, c) ==
    /\ r.b = Builder
    /\ r.skip_count = skip_count + 1
    /\ r.call = [NoCall("add") EXCEPT !.commit = c, !.outcome = "skipped"]

(* C11: the date cutoff.  With a cutoff configured, add of a commit that is
   not indexed and older than the cutoff, without override, adds one to the
   skip counter and leaves Nodes, links, index and flags as they were; with
   the override it leaves the counter alone and does what lines 58-106 do,
   which read no cutoff.  add of an indexed commit leaves the counter alone. *)
ThmC11 ==
    constructed =>
        \A c \in Commits :
            /\ (lookup_get(Builder, c) = NoNode /\ date_limit # None
                    /\ committed_date(c) < date_limit) =>
                  /\ Skipped(add(Builder, skip_count, c, FALSE), c)
                  /\ add(Builder, skip_count, c, TRUE).skip_count = skip_count
                  /\ add(Builder, skip_count, c, TRUE) =
                         add_from_lca(Builder, skip_count, c, get_lca_commit(c, master_commit))
            /\ lookup_get(Builder, c) # NoNode =>
                  \A ig \in BOOLEAN : add(Builder, skip_count, c, ig).skip_count = skip_count

(* A commit older than the cutoff has just been skipped, and the same commit
   with the override is added. *)
WitC11 ==
    /\ last.op = "add" /\ last.outcome = "skipped" /\ skip_count = 1
    /\ add(Builder, skip_count, last.commit, TRUE).call.outcome = "added"

(* C12: one Node per commit.  No two Nodes wrap the same commit, every Node
   but root is the Node the index gives for its commit, and what the index
   gives for a commit is a Node that wraps it. *)
ThmC12 ==
    constructed =>
        /\ \A n, m \in Nodes(Builder) : commit_of(n) = commit_of(m) => n = m
        /\ \A n \in Nodes(Builder) \ {root_node} : node_lookup[commit_of(n)] = n
        /\ \A c \in Commits :
              node_lookup[c] # NoNode =>
                  node_lookup[c] \in Nodes(Builder) /\ commit_of(node_lookup[c]) = c

(* Every commit has its Node, and add was called again with one of them. *)
WitC12 ==
    /\ last.op = "add" /\ last.outcome = "already"
    /\ Cardinality(Nodes(Builder)) = NumCommits + 1

(* C13 (as claimed): a construction without repository or without tip commit
   raises ValueError and leaves no builder; any other construction leaves a
   root Node with no commit and the flag False, the tip Node as its only
   child, flagged True, the tip Node as the only index entry, and a skip
   counter of zero. *)
CexC13 ==
    last.op = "init" =>
        IF repo = None \/ master_commit = None
        THEN last.outcome = "ValueError" /\ Nodes(Builder) = {}
        ELSE /\ last.outcome = "ok"
             /\ commit_of(root_node) = None
             /\ is_on_master_branch[root_node] = PyFalse
             /\ node_parent[root_node] = NoNode
             /\ children[root_node] = <<master_node>>
             /\ commit_of(master_node) = master_commit
             /\ node_parent[master_node] = root_node
             /\ is_on_master_branch[master_node] = PyTrue
             /\ \A c \in Commits :
                    node_lookup[c] = IF c = master_commit THEN master_node ELSE NoNode
             /\ skip_count = 0

(* The Nodes that had a parent and have another one after the step. *)
Moved == {n \in Nodes(Builder) : node_parent[n] # NoNode /\ node_parent'[n] # node_parent[n]}

(* The child list s, or s with one more child at its end. *)
SameOrOneMore(s, t) == t = s \/ (Len(t) = Len(s) + 1 /\ SubSeq(t, 1, Len(s)) = s)

(* What an add may relink.  No Node that had a parent gets another one,
   except that an add that splices a new LCA Node moves exactly one Node, a
   backbone Node, under the new Node, which takes that Node's former parent.
   Root stays without parent and the tip Node stays the Node of the tip
   commit.  When the LCA was already indexed the path from the tip up to root
   is as it was, and every Node that was there keeps its children, with at
   most one more child at the end of its list. *)
Relinking ==
    /\ ~last'.spliced => Moved = {}
    /\ last'.spliced =>
           /\ node_lookup'[last'.lca_commit] \notin Nodes(Builder)
           /\ \E n \in Range(Backbone(Builder)) :
                  /\ Moved = {n}
                  /\ node_parent'[n] = node_lookup'[last'.lca_commit]
                  /\ node_parent'[node_lookup'[last'.lca_commit]] = node_parent[n]
    /\ node_parent'[root_node] = NoNode
    /\ node_lookup'[master_commit] = master_node
    /\ (last'.outcome = "added" /\ ~last'.new_lca) =>
           /\ Backbone(Builder)' = Backbone(Builder)
           /\ \A n \in Nodes(Builder) : SameOrOneMore(children[n], children'[n])

(* An add that returned normally with the LCA already indexed, and made
   Nodes, hung its chain under a Node that was there: that Node has one more
   child. *)
ChainAttached ==
    (last'.outcome = "added" /\ ~last'.new_lca /\ Nodes(Builder)' # Nodes(Builder)) =>
        \E n \in Nodes(Builder) : Len(children'[n]) = Len(children[n]) + 1

(* C14 (as claimed): an add relinks nothing but the one backbone Node below
   a splice, leaves root and the tip Node what they were, and, when the LCA
   is already indexed, leaves the path from root to the tip as it was and
   makes the new chain one more child of a Node that was there. *)
CexC14 ==
    [][last'.op = "add" => Relinking /\ ChainAttached]_vars

(* C15: termination.  Every call of add that has come to its loop returns
   (or an exception leaves it): the walk and the climb of _insert_lca come
   to an end. *)
ThmC15 == (frame.pc # "idle") ~> (frame.pc = "idle")

(* The walk is at a commit without parents for the second time: the Node
   of the commit is last_node. *)
WitC15 ==
    /\ frame.pc = "walk"
    /\ frame.c # frame.lca_commit
    /\ Len(parents[frame.c]) = 0
    /\ frame.last_node # NoNode
    /\ frame.last_node = node_lookup[frame.c]

(* The Nodes flagged is_on_master_branch. *)
Flagged(b) == {n \in Nodes(b) : truthy(b.is_on_master_branch[n])}

(* Every flagged Node is on the path from the tip Node up to root, and so
   in the tree under root. *)
FlaggedOnBackbone ==
    /\ Flagged(Builder) \subseteq Range(Backbone(Builder))
    /\ Flagged(Builder) \subseteq InTree(Builder)

(* After an add that returned normally, the Node of its LCA commit is
   flagged. *)
LcaFlagged ==
    (last.op = "add" /\ last.outcome = "added") =>
        /\ node_lookup[last.lca_commit] # NoNode
        /\ node_lookup[last.lca_commit] \in Flagged(Builder)

(* After an add that returned normally, the Nodes of the commits it walked
   hang under Nodes reachable from root. *)
ChainInTree ==
    (last.op = "add" /\ last.outcome = "added") =>
        \A i \in DOMAIN last.walk :
            /\ node_lookup[last.walk[i]] # NoNode
            /\ node_parent[node_lookup[last.walk[i]]] \in InTree(Builder)

(* C16 (as claimed): after any sequence of add calls, every flagged Node is
   on the path from the tip Node to root and none is outside the tree, the
   Node of the LCA commit of an accepted add is flagged, and no chain hangs
   under a Node that is not reachable from root. *)
CexC16 ==
    constructed => FlaggedOnBackbone /\ LcaFlagged /\ ChainInTree

====
